---- MODULE Spec2Model ----
(***************************************************************************)
(* Model of the PDF-to-Word converter (src/index.tsx): the React state of  *)
(* the App component, its event handlers, and the asynchronous conversion  *)
(* run started by handleConvert (file read, then three dependent calls to  *)
(* the external generative model).                                         *)
(*                                                                         *)
(* A nullable JavaScript value is modelled as a sequence of length at most *)
(* one: None is null/undefined, Some(v) is the value v.                    *)
(***************************************************************************)
EXTENDS Integers, Sequences, FiniteSets, TLC

VARIABLES file, isLoading, loadingMessage, error, result, isDragging,
          runs, lastRun, downloads, lastDownload, downloadCalls

vars == <<file, isLoading, loadingMessage, error, result, isDragging,
          runs, lastRun, downloads, lastDownload, downloadCalls>>

None == <<>>
Some(v) == <<v>>

(* Bound: number of downloads the model follows.                           *)
MaxDownloads == 1

---------------------------------------------------------------------------
(* Inputs *)

PdfMime == "application/pdf"

(* Files the user can pick or drop: name (as the pieces String.replace     *)
(* looks at), MIME type, raw bytes.                                        *)
Files ==
    { [name |-> <<"report", ".pdf">>, type |-> PdfMime, bytes |-> <<37, 80, 68>>],
      [name |-> <<"scan", ".PDF">>, type |-> PdfMime, bytes |-> <<77>>],
      [name |-> <<"invoice", ".pdf", ".pdf">>, type |-> PdfMime, bytes |-> <<1, 2>>],
      [name |-> <<"notes", ".txt">>, type |-> "text/plain", bytes |-> <<104, 105>>] }

(* Texts the external model can return in response.text: absent, empty,    *)
(* or a Markdown document.                                                 *)
Documents == {"# A", "# B"}
ResponseTexts == {None, Some("")} \cup {Some(d) : d \in Documents}

(* Messages of the errors with which generateContent can reject.           *)
TransportErrors == {"Failed to fetch"}

---------------------------------------------------------------------------
(* Binary encoder *)

Base64Alphabet ==
    << "A","B","C","D","E","F","G","H","I","J","K","L","M","N","O","P",
       "Q","R","S","T","U","V","W","X","Y","Z","a","b","c","d","e","f",
       "g","h","i","j","k","l","m","n","o","p","q","r","s","t","u","v",
       "w","x","y","z","0","1","2","3","4","5","6","7","8","9","+","/" >>

B64Char(n) == Base64Alphabet[n + 1]

RECURSIVE Base64(_)
Base64(bs) ==
    IF Len(bs) = 0 THEN ""
    ELSE IF Len(bs) = 1 THEN
        B64Char(bs[1] \div 4) \o B64Char((bs[1] % 4) * 16) \o "=="
    ELSE IF Len(bs) = 2 THEN
        B64Char(bs[1] \div 4) \o B64Char((bs[1] % 4) * 16 + bs[2] \div 16)
            \o B64Char((bs[2] % 16) * 4) \o "="
    ELSE
        B64Char(bs[1] \div 4) \o B64Char((bs[1] % 4) * 16 + bs[2] \div 16)
            \o B64Char((bs[2] % 16) * 4 + bs[3] \div 64) \o B64Char(bs[3] % 64)
            \o Base64(SubSeq(bs, 4, Len(bs)))

(* FileReader.readAsDataURL: the data URL, kept as its comma-separated     *)
(* pieces (what .split(',') returns).                                      *)
readAsDataURL(f) == << "data:" \o f.type \o ";base64", Base64(f.bytes) >>

(* The value the promise of fileToGenerativePart resolves with.            *)
fileToGenerativePart(f) ==
    [inlineData |-> [data |-> readAsDataURL(f)[2], mimeType |-> f.type]]

---------------------------------------------------------------------------
(* Prompts and payloads *)

promptStep1 == "You are an expert document transcriber ..."
promptStep2 == "You are a meticulous document proofreader ..."
promptStep3 == "You are a final quality assurance specialist ..."

Model == "gemini-2.5-flash"

Step1Parts(run) ==
    << [text |-> promptStep1], run.filePart[1] >>

(* Faulty variant: step 2 encodes the currently selected file again.       *)
Step2PartsReencoded(run, markdownStep1) ==
    << [text |-> promptStep2],
       IF file # None THEN fileToGenerativePart(file[1]) ELSE run.filePart[1],
       [text |-> "\n\n--- OCR-GENERATED MARKDOWN TO BE VERIFIED ---\n\n" \o markdownStep1] >>

Step2Parts(run, markdownStep1) ==
    << [text |-> promptStep2], run.filePart[1],
       [text |-> "\n\n--- OCR-GENERATED MARKDOWN TO BE VERIFIED ---\n\n" \o markdownStep1] >>

(* Faulty variant: step 3 is given the text of step 1 again.               *)
Step3PartsStale(run, markdownStep2) ==
    << [text |-> promptStep3], run.filePart[1],
       [text |-> "\n\n--- CORRECTED MARKDOWN FOR FINAL POLISH ---\n\n"
                    \o run.markdownStep1[1]] >>

Step3Parts(run, markdownStep2) ==
    << [text |-> promptStep3], run.filePart[1],
       [text |-> "\n\n--- CORRECTED MARKDOWN FOR FINAL POLISH ---\n\n" \o markdownStep2] >>

(* One ai.models.generateContent invocation, as the external service sees  *)
(* it.                                                                     *)
generateContent(step, parts) == [step |-> step, model |-> Model, parts |-> parts]

Step1Message == "Step 1 of 3: Performing initial conversion..."
(* Faulty variant: step 2 announced with the label of step 1.              *)
Step2MessageStale == "Step 1 of 3: Performing initial conversion..."
Step2Message == "Step 2 of 3: Verifying and correcting the document..."
Step3Message == "Step 3 of 3: Applying final polish..."

Step1Empty == "Step 1 (Initial Conversion) failed or returned empty."
(* Faulty variant: the message of step 1 copied to step 2.                 *)
Step2EmptyWrongStep == "Step 1 (Initial Conversion) failed or returned empty."
Step2Empty == "Step 2 (Verification) failed or returned empty."
Step3Empty == "Step 3 (Final Polish) failed or returned empty."

InvalidPdfError == "Please select a valid PDF file."
NoFileError == "Please select a file first."
ProcessingError(message) == "Error processing file: " \o message

(* Faulty variant: only an absent text counts as empty.                    *)
TruthyNotNull(s) == s # None

(* JavaScript truthiness of a nullable string.                             *)
Truthy(s) == s # None /\ s[1] # ""

---------------------------------------------------------------------------
(* State *)

(* A run is one invocation of the async function handleConvert: the file   *)
(* its closure captured, where it is suspended, its locals, and the        *)
(* external calls it made with the answers it got.                         *)
NewRun(f) ==
    [file |-> f, pc |-> "reading", filePart |-> None,
     markdownStep1 |-> None, markdownStep2 |-> None, finalResult |-> None,
     thrown |-> None, calls |-> <<>>, responses |-> <<>>]

Init ==
    /\ file = None
    /\ isLoading = FALSE
    /\ loadingMessage = ""
    /\ error = None
    /\ result = None
    /\ isDragging = FALSE
    /\ runs = <<>>
    /\ lastRun = None
    /\ downloads = 0
    /\ lastDownload = None
    /\ downloadCalls = 0

RunVarsUnchanged == UNCHANGED <<runs, lastRun>>

DownloadsUnchanged == UNCHANGED <<downloads, lastDownload, downloadCalls>>

---------------------------------------------------------------------------
(* File intake *)

(* Faulty variant: a rejected selection keeps the file selected before.    *)
handleFileChangeKeepsFile(selectedFile) ==
    IF selectedFile # None /\ selectedFile[1].type = PdfMime
    THEN /\ file' = selectedFile
         /\ error' = None
         /\ result' = None
    ELSE /\ error' = Some(InvalidPdfError)
         /\ UNCHANGED <<file, result>>

handleFileChange(selectedFile) ==
    IF selectedFile # None /\ selectedFile[1].type = PdfMime
    THEN /\ file' = selectedFile
         /\ error' = None
         /\ result' = None
    ELSE /\ error' = Some(InvalidPdfError)
         /\ file' = None
         /\ UNCHANGED result

(* onChange of the file input: the first chosen file, or none.             *)
FileInputChange ==
    \E selectedFile \in {None} \cup {Some(f) : f \in Files} :
        /\ handleFileChange(selectedFile)
        /\ UNCHANGED <<isLoading, loadingMessage, isDragging, downloads, lastDownload, downloadCalls>>
        /\ RunVarsUnchanged

handleDragEnter ==
    /\ isDragging' = TRUE
    /\ UNCHANGED <<file, isLoading, loadingMessage, error, result, downloads, lastDownload, downloadCalls>>
    /\ RunVarsUnchanged

handleDragLeave ==
    /\ isDragging' = FALSE
    /\ UNCHANGED <<file, isLoading, loadingMessage, error, result, downloads, lastDownload, downloadCalls>>
    /\ RunVarsUnchanged

(* Drop of a list of files (possibly empty).                               *)
handleDrop ==
    \E files \in {<<>>} \cup {<<f>> : f \in Files} :
        /\ isDragging' = FALSE
        /\ IF Len(files) > 0
           THEN handleFileChange(Some(files[1]))
           ELSE UNCHANGED <<file, error, result>>
        /\ UNCHANGED <<isLoading, loadingMessage, downloads, lastDownload, downloadCalls>>
        /\ RunVarsUnchanged

---------------------------------------------------------------------------
(* Conversion run *)

(* Faulty variant: the button is not disabled while a run is in flight.    *)
ConvertDisabledNoFileOnly == file = None

(* The Convert button is rendered with disabled={!file || isLoading}.      *)
ConvertDisabled == file = None \/ isLoading

(* Faulty variant: the previous result is not cleared when a run starts.   *)
handleConvertKeepsResult ==
    IF file = None
    THEN /\ error' = Some(NoFileError)
         /\ UNCHANGED <<file, isLoading, loadingMessage, result, isDragging, downloads, lastDownload, downloadCalls>>
         /\ RunVarsUnchanged
    ELSE /\ isLoading' = TRUE
         /\ error' = None
         /\ runs' = Append(runs, NewRun(file[1]))
         /\ UNCHANGED <<file, loadingMessage, result, isDragging, lastRun, downloads, lastDownload, downloadCalls>>

(* handleConvert up to its first await.                                    *)
handleConvert ==
    IF file = None
    THEN /\ error' = Some(NoFileError)
         /\ UNCHANGED <<file, isLoading, loadingMessage, result, isDragging, downloads, lastDownload, downloadCalls>>
         /\ RunVarsUnchanged
    ELSE /\ isLoading' = TRUE
         /\ error' = None
         /\ result' = None
         /\ runs' = Append(runs, NewRun(file[1]))
         /\ UNCHANGED <<file, loadingMessage, isDragging, lastRun, downloads, lastDownload, downloadCalls>>

ConvertClick ==
    /\ ~ConvertDisabled
    /\ handleConvert

RemoveAt(s, i) == SubSeq(s, 1, i - 1) \o SubSeq(s, i + 1, Len(s))

(* Faulty variant: the progress label is not cleared after a failure.      *)
CatchFinallyKeepsLabel(i, run, message) ==
    /\ error' = Some(ProcessingError(message))
    /\ isLoading' = FALSE
    /\ runs' = RemoveAt(runs, i)
    /\ lastRun' = Some([run EXCEPT !.pc = "failed", !.thrown = Some(message)])
    /\ UNCHANGED <<file, loadingMessage, result, isDragging, downloads, lastDownload, downloadCalls>>

(* catch (err) { setError(...) } finally { setIsLoading(false); ... }      *)
CatchFinally(i, run, message) ==
    /\ error' = Some(ProcessingError(message))
    /\ isLoading' = FALSE
    /\ loadingMessage' = ""
    /\ runs' = RemoveAt(runs, i)
    /\ lastRun' = Some([run EXCEPT !.pc = "failed", !.thrown = Some(message)])
    /\ UNCHANGED <<file, result, isDragging, downloads, lastDownload, downloadCalls>>

(* Faulty variant: the text of step 2 is stored instead of the final one.  *)
ResultOfStep2(run, finalResult) == run.markdownStep2[1]

(* The value stored by setResult at the end of a successful run.           *)
ResultOf(run, finalResult) == finalResult

(* setResult(finalResult); finally { setIsLoading(false); ... }            *)
SucceedFinally(i, run, finalResult) ==
    /\ result' = Some(ResultOf(run, finalResult))
    /\ isLoading' = FALSE
    /\ loadingMessage' = ""
    /\ runs' = RemoveAt(runs, i)
    /\ lastRun' = Some([run EXCEPT !.pc = "done", !.finalResult = Some(finalResult)])
    /\ UNCHANGED <<file, error, isDragging, downloads, lastDownload, downloadCalls>>

(* reader.onloadend after a successful read: the promise resolves, the     *)
(* run resumes, announces step 1 and issues the first call.                *)
ReaderLoaded(i) ==
    /\ runs[i].pc = "reading"
    /\ LET part == fileToGenerativePart(runs[i].file)
           run == [runs[i] EXCEPT !.filePart = Some(part)]
       IN  /\ loadingMessage' = Step1Message
           /\ runs' = [runs EXCEPT ![i] =
                  [run EXCEPT !.pc = "step1",
                              !.calls = Append(@, generateContent(1, Step1Parts(run)))]]
    /\ UNCHANGED <<file, isLoading, error, result, isDragging, lastRun, downloads, lastDownload, downloadCalls>>

(* reader.onloadend after a failed read: reader.result is null, so the     *)
(* handler throws a TypeError inside the event callback; resolve is never  *)
(* called and the awaited promise never settles.                           *)
ReaderFailed(i) ==
    /\ runs[i].pc = "reading"
    /\ runs' = [runs EXCEPT ![i].pc = "stuck"]
    /\ UNCHANGED <<file, isLoading, loadingMessage, error, result, isDragging,
                   lastRun, downloads, lastDownload, downloadCalls>>

Answer(text) == [ok |-> TRUE, text |-> text, message |-> ""]
Rejection(message) == [ok |-> FALSE, text |-> None, message |-> message]

(* Step 1 returns with response.text = text.                               *)
Step1Returns(i) ==
    /\ runs[i].pc = "step1"
    /\ \E text \in ResponseTexts :
        LET run == [runs[i] EXCEPT !.responses = Append(@, Answer(text))]
        IN  IF ~Truthy(text)
            THEN CatchFinally(i, run, Step1Empty)
            ELSE LET run1 == [run EXCEPT !.markdownStep1 = text]
                 IN /\ loadingMessage' = Step2Message
                    /\ runs' = [runs EXCEPT ![i] =
                         [run1 EXCEPT !.pc = "step2",
                                      !.calls = Append(@,
                                          generateContent(2, Step2Parts(run1, text[1])))]]
                    /\ UNCHANGED <<file, isLoading, error, result, isDragging,
                                   lastRun, downloads, lastDownload, downloadCalls>>

Step2Returns(i) ==
    /\ runs[i].pc = "step2"
    /\ \E text \in ResponseTexts :
        LET run == [runs[i] EXCEPT !.responses = Append(@, Answer(text))]
        IN  IF ~Truthy(text)
            THEN CatchFinally(i, run, Step2Empty)
            ELSE LET run2 == [run EXCEPT !.markdownStep2 = text]
                 IN /\ loadingMessage' = Step3Message
                    /\ runs' = [runs EXCEPT ![i] =
                         [run2 EXCEPT !.pc = "step3",
                                      !.calls = Append(@,
                                          generateContent(3, Step3Parts(run2, text[1])))]]
                    /\ UNCHANGED <<file, isLoading, error, result, isDragging,
                                   lastRun, downloads, lastDownload, downloadCalls>>

Step3Returns(i) ==
    /\ runs[i].pc = "step3"
    /\ \E text \in ResponseTexts :
        LET run == [runs[i] EXCEPT !.responses = Append(@, Answer(text))]
        IN  IF ~Truthy(text)
            THEN CatchFinally(i, run, Step3Empty)
            ELSE SucceedFinally(i, run, text[1])

(* The pending generateContent call rejects (network, auth, quota).        *)
CallRejects(i) ==
    /\ runs[i].pc \in {"step1", "step2", "step3"}
    /\ \E message \in TransportErrors :
        CatchFinally(i, [runs[i] EXCEPT !.responses = Append(@, Rejection(message))],
                     message)

---------------------------------------------------------------------------
(* Export *)

(* String.prototype.replace with a string pattern: the first occurrence.   *)
RECURSIVE ReplaceFirst(_, _, _)
ReplaceFirst(name, from, to) ==
    IF name = <<>> THEN <<>>
    ELSE IF Head(name) = from THEN <<to>> \o Tail(name)
    ELSE <<Head(name)>> \o ReplaceFirst(Tail(name), from, to)

DefaultFileName == <<"document", ".doc">>

(* file?.name.replace('.pdf', '.doc') || 'document.doc'                    *)
FileNameOf(f) ==
    IF f = None THEN DefaultFileName
    ELSE IF ReplaceFirst(f[1].name, ".pdf", ".doc") = <<>> THEN DefaultFileName
    ELSE ReplaceFirst(f[1].name, ".pdf", ".doc")

(* Faulty variant: the export runs without checking that there is a       *)
(* result.                                                                 *)
handleDownloadUnguarded ==
    /\ downloadCalls' = downloadCalls + 1
    /\ downloads' = downloads + 1
    /\ lastDownload' = Some([download |-> FileNameOf(file),
                             markdown |-> IF result = None THEN "" ELSE result[1]])

(* Every click of the generated link saves one file: the model counts the  *)
(* saves and keeps the last one. downloadCalls counts the invocations of   *)
(* handleDownload, whatever they did.                                      *)
handleDownload ==
    /\ downloadCalls' = downloadCalls + 1
    /\ IF ~Truthy(result)
       THEN UNCHANGED <<downloads, lastDownload>>
       ELSE /\ downloads' = downloads + 1
            /\ lastDownload' = Some([download |-> FileNameOf(file), markdown |-> result[1]])

(* The download button is rendered only when result && !isLoading.         *)
DownloadClick ==
    /\ Truthy(result) /\ ~isLoading
    /\ downloads < MaxDownloads
    /\ handleDownload
    /\ UNCHANGED <<file, isLoading, loadingMessage, error, result, isDragging>>
    /\ RunVarsUnchanged

(* handleDownload invoked directly, in any state (the export operation     *)
(* without the button's rendering condition).                              *)
DownloadCall ==
    /\ downloadCalls < MaxDownloads
    /\ handleDownload
    /\ UNCHANGED <<file, isLoading, loadingMessage, error, result, isDragging>>
    /\ RunVarsUnchanged

---------------------------------------------------------------------------

Next ==
    \/ FileInputChange
    \/ handleDragEnter
    \/ handleDragLeave
    \/ handleDrop
    \/ ConvertClick
    \/ DownloadClick
    \/ \E i \in DOMAIN runs : ReaderLoaded(i)
    \/ \E i \in DOMAIN runs : ReaderFailed(i)
    \/ \E i \in DOMAIN runs : Step1Returns(i)
    \/ \E i \in DOMAIN runs : Step2Returns(i)
    \/ \E i \in DOMAIN runs : Step3Returns(i)
    \/ \E i \in DOMAIN runs : CallRejects(i)

Spec == Init /\ [][Next]_vars

(* The file read completes and every pending external call returns or      *)
(* rejects.                                                                *)
Fairness ==
    /\ WF_vars(\E i \in DOMAIN runs : ReaderLoaded(i) \/ ReaderFailed(i))
    /\ WF_vars(\E i \in DOMAIN runs :
            Step1Returns(i) \/ Step2Returns(i) \/ Step3Returns(i) \/ CallRejects(i))

FairSpec == Spec /\ Fairness

(* The application with its operations also callable directly.             *)
OpsNext == Next \/ DownloadCall

OpsSpec == Init /\ [][OpsNext]_vars

---------------------------------------------------------------------------
(* Vocabulary of the properties *)

(* Every run the state records: the active ones and the last ended one.    *)
AllRuns == {runs[i] : i \in DOMAIN runs} \cup {lastRun[i] : i \in DOMAIN lastRun}

(* A step in which a run ends; lastRun' is then the run that ended.        *)
RunEnds == Len(runs') < Len(runs)

(* Stage j of run r returned non-empty text.                               *)
ReturnedText(r, j) ==
    /\ j \in DOMAIN r.responses
    /\ r.responses[j].ok
    /\ r.responses[j].text # None
    /\ r.responses[j].text[1] # ""

(* Stage j of run r returned empty or absent text.                         *)
ReturnedEmpty(r, j) ==
    /\ j \in DOMAIN r.responses
    /\ r.responses[j].ok
    /\ (r.responses[j].text = None \/ r.responses[j].text[1] = "")

(* Stages 1..k-1 of r returned text and stage k, the last to answer,       *)
(* returned none.                                                          *)
EmptyAtStage(r, k) ==
    /\ Len(r.responses) = k
    /\ \A j \in 1..(k - 1) : ReturnedText(r, j)
    /\ ReturnedEmpty(r, k)

AllStagesReturnedText(r) ==
    /\ Len(r.responses) = 3
    /\ \A j \in 1..3 : ReturnedText(r, j)

StepEmptyMessage(k) ==
    CASE k = 1 -> "Step 1 (Initial Conversion) failed or returned empty."
      [] k = 2 -> "Step 2 (Verification) failed or returned empty."
      [] k = 3 -> "Step 3 (Final Polish) failed or returned empty."

---------------------------------------------------------------------------
(* C1: when stages 1..k-1 return text and stage k returns empty or absent  *)
(* text, the run ends Failed, the error names step k, nothing is stored in *)
(* result, and the run made exactly k external calls.                      *)
C1_EmptyStageFails ==
    [][RunEnds =>
        \A k \in 1..3 :
            EmptyAtStage(lastRun'[1], k) =>
                /\ lastRun'[1].pc = "failed"
                /\ lastRun'[1].thrown = Some(StepEmptyMessage(k))
                /\ error' = Some("Error processing file: " \o StepEmptyMessage(k))
                /\ result' = None
                /\ ~isLoading'
                /\ Len(lastRun'[1].calls) = k]_vars

(* A run failed at stage 2 after two calls, and the error says so.         *)
C1_Witness ==
    /\ lastRun # None
    /\ EmptyAtStage(lastRun[1], 2)
    /\ Len(lastRun[1].calls) = 2
    /\ error = Some("Error processing file: Step 2 (Verification) failed or returned empty.")

C3_NoPartialResult ==
    /\ result # None =>
        /\ lastRun # None
        /\ lastRun[1].pc = "done"
        /\ AllStagesReturnedText(lastRun[1])
        /\ result = lastRun[1].responses[3].text
    /\ runs # <<>> => result = None
    /\ isLoading => result = None
    /\ (lastRun # None /\ lastRun[1].pc = "failed") => result = None

(* A run failed at stage 3, after two stages had produced text, and        *)
(* nothing is surfaced.                                                    *)
C3_Witness ==
    /\ lastRun # None
    /\ lastRun[1].pc = "failed"
    /\ Len(lastRun[1].calls) = 3
    /\ lastRun[1].markdownStep2 # None
    /\ result = None
    /\ runs = <<>>

(* C4: the stage-2 call carries the text stage 1 returned, the stage-3     *)
(* call carries the text stage 2 returned, and the stage-1 call carries    *)
(* only the prompt and the attachment.                                     *)
C4_ContextThreading ==
    \A r \in AllRuns :
        /\ Len(r.calls) >= 1 =>
              /\ Len(r.calls[1].parts) = 2
              /\ r.calls[1].parts[1] = [text |-> promptStep1]
        /\ Len(r.calls) >= 2 =>
              /\ Len(r.calls[2].parts) = 3
              /\ r.calls[2].parts[3] =
                    [text |-> "\n\n--- OCR-GENERATED MARKDOWN TO BE VERIFIED ---\n\n"
                                \o r.responses[1].text[1]]
        /\ Len(r.calls) >= 3 =>
              /\ Len(r.calls[3].parts) = 3
              /\ r.calls[3].parts[3] =
                    [text |-> "\n\n--- CORRECTED MARKDOWN FOR FINAL POLISH ---\n\n"
                                \o r.responses[2].text[1]]

(* A run reached stage 3 with stages 1 and 2 having returned different     *)
(* texts.                                                                  *)
C4_Witness ==
    \E r \in AllRuns :
        /\ Len(r.calls) = 3
        /\ r.responses[1].text # r.responses[2].text

(* C5: every call of a run carries the one attachment derived from the     *)
(* file the run was started on, whatever file is selected meanwhile.       *)
C5_SameAttachment ==
    \A r \in AllRuns :
        \A j \in DOMAIN r.calls :
            /\ r.filePart # None
            /\ r.calls[j].parts[2] = r.filePart[1]
            /\ r.calls[j].parts[2] =
                  [inlineData |-> [data |-> Base64(r.file.bytes), mimeType |-> r.file.type]]

(* A run in flight has made its three calls while another PDF is selected. *)
C5_Witness ==
    \E i \in DOMAIN runs :
        /\ Len(runs[i].calls) = 3
        /\ file # None
        /\ file # Some(runs[i].file)

(* C6: a run calls the stages in the order 1, 2, 3, each at most once, at  *)
(* most three times in all, with at most one call unanswered, and stage N  *)
(* only after stage N-1 returned text.                                     *)
C6_SequentialStages ==
    \A r \in AllRuns :
        /\ Len(r.calls) <= 3
        /\ \A j \in DOMAIN r.calls : r.calls[j].step = j
        /\ Len(r.responses) <= Len(r.calls)
        /\ Len(r.calls) <= Len(r.responses) + 1
        /\ \A j \in 1..(Len(r.calls) - 1) : ReturnedText(r, j)

(* A run has its third call in flight.                                     *)
C6_Witness ==
    \E i \in DOMAIN runs :
        /\ Len(runs[i].calls) = 3
        /\ Len(runs[i].responses) = 2

(* C7: at most one run is active, and an active run keeps isLoading true,  *)
(* which disables Convert.                                                 *)
C7_SingleActiveRun ==
    /\ Len(runs) <= 1
    /\ runs # <<>> => (isLoading /\ ConvertDisabled)
    /\ isLoading => runs # <<>>

(* A run is in flight while a PDF is selected: only the loading flag keeps *)
(* Convert disabled.                                                       *)
C7_Witness ==
    /\ Len(runs) = 1
    /\ runs[1].pc = "step2"
    /\ file # None
    /\ isLoading

(* A step in which a run ends because a stage returned no text or its call *)
(* rejected.                                                               *)
RunFails == RunEnds /\ lastRun'[1].pc = "failed"

FailureReason(r) ==
    IF r.responses[Len(r.responses)].ok
    THEN StepEmptyMessage(Len(r.responses))
    ELSE r.responses[Len(r.responses)].message

C9_EncodingFailureSurfaces ==
    [][\A i \in DOMAIN runs :
        (runs[i].pc = "reading" /\ ReaderFailed(i)) =>
            /\ RunEnds
            /\ lastRun'[1].pc = "failed"
            /\ lastRun'[1].calls = <<>>
            /\ error' # None
            /\ ~isLoading']_vars

(* C10: a started run eventually ends Done or Failed with isLoading reset. *)
C10_RunTerminates ==
    isLoading ~> (~isLoading /\ (result # None \/ error # None))

---------------------------------------------------------------------------
(* C11: while the call of stage k is in flight the progress label names    *)
(* step k of 3, and the label is empty once no run is in flight.           *)
C11_ProgressLabel ==
    /\ \A i \in DOMAIN runs :
        /\ runs[i].pc = "step1" =>
              loadingMessage = "Step 1 of 3: Performing initial conversion..."
        /\ runs[i].pc = "step2" =>
              loadingMessage = "Step 2 of 3: Verifying and correcting the document..."
        /\ runs[i].pc = "step3" =>
              loadingMessage = "Step 3 of 3: Applying final polish..."
        /\ Len(runs[i].calls) > Len(runs[i].responses) =>
              runs[i].pc = <<"step1", "step2", "step3">>[Len(runs[i].calls)]
    /\ runs = <<>> => loadingMessage = ""

(* The third call is in flight under the label of step 3.                  *)
C11_Witness ==
    \E i \in DOMAIN runs :
        /\ runs[i].pc = "step3"
        /\ Len(runs[i].calls) = 3 /\ Len(runs[i].responses) = 2
        /\ loadingMessage = "Step 3 of 3: Applying final polish..."

---------------------------------------------------------------------------
(* What the user can hand to the file input or drop that is not a PDF:     *)
(* nothing, or a file of another type.                                     *)
InvalidSelections ==
    {None} \cup {Some(f) : f \in {g \in Files : g.type # "application/pdf"}}

ValidSelections == {Some(f) : f \in {g \in Files : g.type = "application/pdf"}}

(* A step of the file input or of a drop that hands sel to                 *)
(* handleFileChange.                                                       *)
SelectionOf(sel) == (FileInputChange \/ handleDrop) /\ handleFileChange(sel)

(* C12: a selection that is not a PDF, made in any state, leaves file      *)
(* null, sets the error to "Please select a valid PDF file." and starts    *)
(* nothing; a selection of a PDF sets file and clears the error.           *)
C12_InvalidSelectionRejected ==
    [][/\ \A sel \in InvalidSelections :
            SelectionOf(sel) =>
                /\ file' = None
                /\ error' = Some("Please select a valid PDF file.")
                /\ runs' = runs
                /\ lastRun' = lastRun
                /\ isLoading' = isLoading
                /\ loadingMessage' = loadingMessage
       /\ \A sel \in ValidSelections :
            SelectionOf(sel) =>
                /\ file' = sel
                /\ error' = None
                /\ runs' = runs
                /\ isLoading' = isLoading]_vars

(* A selection was rejected after a file had been converted: no file is    *)
(* selected and the message is shown.                                      *)
C12_Witness ==
    /\ file = None
    /\ error = Some("Please select a valid PDF file.")
    /\ lastRun # None
    /\ runs = <<>>

---------------------------------------------------------------------------
(* The output name as specified: a trailing ".pdf" replaced by ".doc", and *)
(* "document.doc" for a name without a trailing ".pdf" or an absent name.  *)
deriveFileName(f) ==
    IF f = None THEN <<"document", ".doc">>
    ELSE IF f[1].name # <<>> /\ f[1].name[Len(f[1].name)] = ".pdf"
         THEN SubSeq(f[1].name, 1, Len(f[1].name) - 1) \o <<".doc">>
         ELSE <<"document", ".doc">>

(* C13: every download is saved under the name derived from the selected   *)
(* file: its trailing ".pdf" replaced by ".doc", or "document.doc" when    *)
(* the name has no trailing ".pdf" or no file is selected.                 *)
C13_OutputFileName ==
    [][downloads' > downloads =>
          lastDownload'[1].download = deriveFileName(file)]_vars

---------------------------------------------------------------------------
NoResult == result = None \/ result[1] = ""

(* C14: handleDownload invoked while there is no result triggers no        *)
(* download and changes nothing of the application's state; a download is  *)
(* triggered only when there is a result.                                  *)
C14_DownloadWithoutResult ==
    [][/\ NoResult => (downloads' = downloads /\ lastDownload' = lastDownload)
       /\ (NoResult /\ downloadCalls' # downloadCalls) =>
             UNCHANGED <<file, isLoading, loadingMessage, error, result, isDragging,
                         runs, lastRun, downloads, lastDownload>>]_vars

(* handleDownload has been invoked, there was no result, and nothing was   *)
(* downloaded.                                                             *)
C14_Witness ==
    /\ downloadCalls > 0
    /\ downloads = 0
    /\ lastDownload = None
    /\ result = None
    /\ error = None

---------------------------------------------------------------------------
(* C15: a result shown while a file is selected was produced by a run over *)
(* that file.                                                              *)
C15_ResultBelongsToFile ==
    (result # None /\ file # None) =>
        /\ lastRun # None
        /\ lastRun[1].pc = "done"
        /\ lastRun[1].file = file[1]

(* C16: no run is in flight while an error message is set.                 *)
C16_NoErrorWhileLoading == ~(isLoading /\ error # None)

(* C17: an error message and a result are never present together.         *)
C17_NoResultNextToError == error # None => result = None

====
